---- MODULE Spec2Model ----
(***************************************************************************)
(* WordDateGenerator: the date-schedule generation (_generate_dates) and   *)
(* its binding to the rows of a table (add_dates_to_table).                *)
(*                                                                         *)
(* A calendar date (datetime.date, as DateEntry.get_date returns it) is    *)
(* its proleptic Gregorian ordinal, so that date + timedelta(days=i) is    *)
(* ordinal + i and (a - b).days is a - b.  Texts are strings.  A table is  *)
(* a sequence of rows, a row the sequence of the texts of its cells.       *)
(***************************************************************************)
EXTENDS Integers, Sequences, FiniteSets, TLC

VARIABLES
    start_date,            \* self.start_date
    end_date,              \* self.end_date
    date_format,           \* self.date_format
    excluded_days,         \* self.excluded_days: a set of strings
    excluded_date_ranges,  \* self.excluded_date_ranges: a list of DateRangeElement
    date_column,           \* self.date_column
    selected_table,        \* self.selected_table: the texts of row.cells of each row
    ret,                   \* what the last call of _generate_dates returned or raised
    prev,                  \* what the call of _generate_dates before that one did
    outcome,               \* how the last add_dates_to_table ended
    writes,                \* the cell assignments the last add_dates_to_table made, in order
    before,                \* selected_table as the last add_dates_to_table found it
    exclude_ranges,        \* App.exclude_ranges: a list of DateRangeElement
    same_list,             \* document.excluded_date_ranges is exclude_ranges (one list object)
    has_document,          \* hasattr(app, "document")
    ui_enabled,            \* the state _set_ui_state last gave the widgets
    checked,               \* the lowered texts of the ticked weekday checkboxes
    range_elements,        \* the DateRangeElement frames that exist (not destroyed)
    created                \* the number of DateRangeElement frames created so far

config == <<start_date, end_date, date_format, excluded_days,
            excluded_date_ranges, date_column>>

\* The state of the App around the WordDateGenerator.
app == <<exclude_ranges, same_list, has_document, ui_enabled, checked,
         range_elements, created>>

vars == <<start_date, end_date, date_format, excluded_days, excluded_date_ranges,
          date_column, selected_table, ret, prev, outcome, writes, before,
          exclude_ranges, same_list, has_document, ui_enabled, checked,
          range_elements, created>>

(***************************************************************************)
(* Bounds of the model.                                                    *)
(***************************************************************************)
\* The first date of the window the dates are drawn from: 2024-03-29, a Friday.
FirstDay == 738974
\* The number of consecutive dates in the window.
NumDays == 3
\* The largest number of DateRangeElements in excluded_date_ranges.
MaxRanges == 1
\* The largest number of rows of the table.
MaxRows == 2
\* The largest number of cells of a row.
MaxCols == 2
\* The largest number of DateRangeElement frames the App creates.
MaxCreated == 2

Days == FirstDay .. (FirstDay + NumDays - 1)

\* The strings excluded_days is drawn from: canonical names in three
\* spellings, and one string that names no weekday.
DayNames == {"saturday", "Sunday", "MONDAY", "funday"}

\* The strftime templates date_format is drawn from (the first is the default).
Formats == {"%a. %b. %d", "%Y-%m-%d"}

\* date_column: every index of the widest row, one past it, and the
\* negative indices, which Python's list indexing takes from the end.
Columns == (0 - MaxCols) .. MaxCols

(***************************************************************************)
(* datetime.date                                                           *)
(***************************************************************************)
\* date.weekday(): Monday is 0, Sunday is 6.
weekday(d) == (d + 6) % 7

\* The days of each month of a common year, and the days before each.
DAYS_IN_MONTH == <<31, 28, 31, 30, 31, 30, 31, 31, 30, 31, 30, 31>>
DAYS_BEFORE_MONTH == <<0, 31, 59, 90, 120, 151, 181, 212, 243, 273, 304, 334>>

\* The year, month and day of an ordinal (day 1 is 0001-01-01).
ord2ymd(ordinal) ==
    LET n0   == ordinal - 1
        n400 == n0 \div 146097
        r400 == n0 % 146097
        n100 == r400 \div 36524
        r100 == r400 % 36524
        n4   == r100 \div 1461
        r4   == r100 % 1461
        n1   == r4 \div 365
        n    == r4 % 365
        year == n400 * 400 + 1 + n100 * 100 + n4 * 4 + n1
        leap == n1 = 3 /\ (n4 # 24 \/ n100 = 3)
        \* the estimate (n + 50) >> 5 is exact or one too large
        est  == (n + 50) \div 32
        pre  == DAYS_BEFORE_MONTH[est] + (IF est > 2 /\ leap THEN 1 ELSE 0)
        m    == IF pre > n THEN est - 1 ELSE est
        prec == IF pre > n
                THEN pre - (DAYS_IN_MONTH[m] + (IF m = 2 /\ leap THEN 1 ELSE 0))
                ELSE pre
    IN  IF n1 = 4 \/ n100 = 4
        THEN [year |-> year - 1, month |-> 12, day |-> 31]
        ELSE [year |-> year, month |-> m, day |-> n - prec + 1]

DayAbbr == <<"Mon", "Tue", "Wed", "Thu", "Fri", "Sat", "Sun">>
MonthAbbr == <<"Jan", "Feb", "Mar", "Apr", "May", "Jun",
               "Jul", "Aug", "Sep", "Oct", "Nov", "Dec">>

\* A number in two digits, zero-padded.
Pad2(n) == IF n < 10 THEN "0" \o ToString(n) ELSE ToString(n)

\* One strftime directive (the C locale).
Directive(d, c) ==
    LET ymd == ord2ymd(d)
    IN  CASE c = "a" -> DayAbbr[weekday(d) + 1]
          [] c = "b" -> MonthAbbr[ymd.month]
          [] c = "d" -> Pad2(ymd.day)
          [] c = "m" -> Pad2(ymd.month)
          [] c = "Y" -> ToString(ymd.year)
          [] c = "%" -> "%"

\* date.strftime(format)
RECURSIVE strftime(_, _)
strftime(d, f) ==
    IF f = "" THEN ""
    ELSE IF Head(f) = "%" /\ Len(f) >= 2
         THEN Directive(d, SubSeq(f, 2, 2)) \o strftime(d, SubSeq(f, 3, Len(f)))
         ELSE Head(f) \o strftime(d, Tail(f))

(***************************************************************************)
(* str.lower                                                               *)
(***************************************************************************)
UpperCase == "ABCDEFGHIJKLMNOPQRSTUVWXYZ"
LowerCase == "abcdefghijklmnopqrstuvwxyz"

\* The lowercase letter of each uppercase letter.
LowerMap ==
    [c \in {SubSeq(UpperCase, i, i) : i \in 1..26} |->
        LET i == CHOOSE i \in 1..26 : SubSeq(UpperCase, i, i) = c
        IN  SubSeq(LowerCase, i, i)]

LowerChar(c) == IF c \in DOMAIN LowerMap THEN LowerMap[c] ELSE c

RECURSIVE lower(_)
lower(s) == IF s = "" THEN "" ELSE LowerChar(Head(s)) \o lower(Tail(s))

(***************************************************************************)
(* DateRangeElement                                                        *)
(***************************************************************************)
DateRangeElement(s, e) == [start_date |-> s, end_date |-> e]
get_start_date(r) == r.start_date
get_end_date(r) == r.end_date

\* range(n)
range(n) == 0 .. (n - 1)

(***************************************************************************)
(* WordDateGenerator._generate_dates                                       *)
(***************************************************************************)
days_as_numbers ==
    [name \in {"monday", "tuesday", "wednesday", "thursday",
               "friday", "saturday", "sunday"} |->
        CASE name = "monday" -> 0
          [] name = "tuesday" -> 1
          [] name = "wednesday" -> 2
          [] name = "thursday" -> 3
          [] name = "friday" -> 4
          [] name = "saturday" -> 5
          [] name = "sunday" -> 6]

\* day.lower() of each string excluded_days can hold, computed once.
lowered ==
    [day \in DayNames \cup {"monday", "tuesday", "wednesday", "thursday",
                            "friday", "saturday", "sunday"} |-> lower(day)]

\* The comprehension of line 125 raises KeyError for a key the dict lacks.
raises_KeyError(days) == \E day \in days : lowered[day] \notin DOMAIN days_as_numbers

\* excluded_numbers with the weekdays counted from Sunday = 0.
excluded_numbers_from_sunday(days) ==
    {(days_as_numbers[lowered[day]] + 1) % 7 : day \in days}

\* The list of line 125 is only ever asked for membership: its elements.
excluded_numbers(days) == {days_as_numbers[lowered[day]] : day \in days}

\* excluded_dates with each range's end date left out of its span.
excluded_dates_exclusive ==
    UNION { { get_start_date(excluded_date_ranges[k]) + i :
                i \in range(get_end_date(excluded_date_ranges[k])
                            - get_start_date(excluded_date_ranges[k])) } :
            k \in 1..Len(excluded_date_ranges) }

\* The set of lines 126-133: each range expanded over its own inclusive
\* span of days, read from self.excluded_date_ranges.
excluded_dates ==
    UNION { { get_start_date(excluded_date_ranges[k]) + i :
                i \in range(get_end_date(excluded_date_ranges[k])
                            - get_start_date(excluded_date_ranges[k]) + 1) } :
            k \in 1..Len(excluded_date_ranges) }

\* listed_dates over range((end - start).days): the end date is never a candidate.
listed_dates_short(start, end, days) ==
    LET numbers    == excluded_numbers(days)
        dates      == excluded_dates
        candidates == [k \in 1..(end - start) |-> start + (k - 1)]
        keep(d)    == weekday(d) \notin numbers /\ d \notin dates
    IN  SelectSeq(candidates, keep)

\* listed_dates over range(abs((end - start).days) + 1).
listed_dates_abs(start, end, days) ==
    LET numbers    == excluded_numbers(days)
        dates      == excluded_dates
        span       == IF end < start THEN start - end ELSE end - start
        candidates == [k \in 1..(span + 1) |-> start + (k - 1)]
        keep(d)    == weekday(d) \notin numbers /\ d \notin dates
    IN  SelectSeq(candidates, keep)

\* listed_dates with the offsets counted from 1: the start date is never a candidate.
listed_dates_from_next(start, end, days) ==
    LET numbers    == excluded_numbers(days)
        dates      == excluded_dates
        candidates == [k \in 1..(end - start + 1) |-> start + k]
        keep(d)    == weekday(d) \notin numbers /\ d \notin dates
    IN  SelectSeq(candidates, keep)

\* The list of lines 135-140.
listed_dates(start, end, days) ==
    LET numbers    == excluded_numbers(days)
        dates      == excluded_dates
        candidates == [k \in 1..(end - start + 1) |-> start + (k - 1)]
        keep(d)    == weekday(d) \notin numbers /\ d \notin dates
    IN  SelectSeq(candidates, keep)

NotCalled == [status |-> "none", dates |-> <<>>]

\* _generate_dates looking the names up with dict.get: a name the dict lacks
\* is passed over.
_generate_dates_lenient(start, end, days) ==
    [status |-> "ok",
     dates  |-> listed_dates(start, end,
                    {day \in days : lowered[day] \in DOMAIN days_as_numbers})]

\* _generate_dates collecting into a list that outlives the call.
_generate_dates_accumulating(start, end, days) ==
    IF raises_KeyError(days)
    THEN [status |-> "KeyError", dates |-> <<>>]
    ELSE [status |-> "ok", dates |-> ret.dates \o listed_dates(start, end, days)]

\* What a call returns or raises.
_generate_dates(start, end, days) ==
    IF raises_KeyError(days)
    THEN [status |-> "KeyError", dates |-> <<>>]
    ELSE [status |-> "ok", dates |-> listed_dates(start, end, days)]

(***************************************************************************)
(* WordDateGenerator.add_dates_to_table                                    *)
(***************************************************************************)
\* cells[index] of a Python list of n cells: the position (from 1) it
\* names, or 0 where it raises IndexError.
cell_position(n, index) ==
    IF 0 <= index /\ index < n THEN index + 1
    ELSE IF index < 0 /\ 0 - n <= index THEN n + index + 1
    ELSE 0

\* bind_rows writing the first date into every row.
RECURSIVE bind_rows_first_date(_, _, _, _)
bind_rows_first_date(i, dates, table, log) ==
    IF i > Len(table) \/ i > Len(dates)
    THEN [outcome |-> "ok", table |-> table, writes |-> log]
    ELSE LET text == strftime(dates[1], date_format)
             pos  == cell_position(Len(table[i]), date_column)
         IN  IF pos = 0
             THEN [outcome |-> "IndexError", table |-> table, writes |-> log]
             ELSE bind_rows_first_date(i + 1, dates,
                            [table EXCEPT ![i][pos] = text],
                            Append(log, [row |-> i, cell |-> pos, text |-> text]))

\* bind_rows passing over a row that lacks the column and going on.
RECURSIVE bind_rows_skip(_, _, _, _)
bind_rows_skip(i, dates, table, log) ==
    IF i > Len(table) \/ i > Len(dates)
    THEN [outcome |-> "ok", table |-> table, writes |-> log]
    ELSE LET text == strftime(dates[i], date_format)
             pos  == cell_position(Len(table[i]), date_column)
         IN  IF pos = 0
             THEN bind_rows_skip(i + 1, dates, table, log)
             ELSE bind_rows_skip(i + 1, dates,
                            [table EXCEPT ![i][pos] = text],
                            Append(log, [row |-> i, cell |-> pos, text |-> text]))

\* bind_rows writing the first cell of each row, whatever date_column is.
RECURSIVE bind_rows_first_cell(_, _, _, _)
bind_rows_first_cell(i, dates, table, log) ==
    IF i > Len(table) \/ i > Len(dates)
    THEN [outcome |-> "ok", table |-> table, writes |-> log]
    ELSE LET text == strftime(dates[i], date_format)
             pos  == 1
         IN  bind_rows_first_cell(i + 1, dates,
                            [table EXCEPT ![i][pos] = text],
                            Append(log, [row |-> i, cell |-> pos, text |-> text]))

\* The loop of lines 148-149 from the i-th pair of zip(rows, dates) on.
RECURSIVE bind_rows(_, _, _, _)
bind_rows(i, dates, table, log) ==
    IF i > Len(table) \/ i > Len(dates)
    THEN [outcome |-> "ok", table |-> table, writes |-> log]
    ELSE LET text == strftime(dates[i], date_format)
             pos  == cell_position(Len(table[i]), date_column)
         IN  IF pos = 0
             THEN [outcome |-> "IndexError", table |-> table, writes |-> log]
             ELSE bind_rows(i + 1, dates,
                            [table EXCEPT ![i][pos] = text],
                            Append(log, [row |-> i, cell |-> pos, text |-> text]))

(***************************************************************************)
(* The state after construction                                            *)
(***************************************************************************)
\* The text a cell of the document holds before any date is written.
InitText(r, c) == "r" \o ToString(r) \o "c" \o ToString(c)

\* The table whose r-th row has widths[r] cells.
NewTable(widths) ==
    [r \in 1..Len(widths) |-> [c \in 1..widths[r] |-> InitText(r, c)]]

Tables == { NewTable(w) : w \in UNION { [1..n -> 1..MaxCols] : n \in 0..MaxRows } }

RangeLists ==
    UNION { [1..n -> { DateRangeElement(s, e) : s \in Days, e \in Days }] :
            n \in 0..MaxRanges }

\* WordDateGenerator(path, start_date, end_date, excluded_days=...,
\* excluded_date_ranges=...): date_format and date_column take their defaults.
InitGenerate ==
    /\ excluded_date_ranges \in RangeLists
    /\ date_format = "%a. %b. %d"
    /\ date_column = 0
    /\ selected_table = NewTable([r \in 1..MaxRows |-> MaxCols])

\* WordDateGenerator(path, start_date, end_date, date_format=...,
\* excluded_days=..., date_column=...): excluded_date_ranges takes its default.
InitBind ==
    /\ excluded_date_ranges = <<>>
    /\ date_format \in Formats
    /\ date_column \in Columns
    /\ selected_table \in Tables

\* A WordDateGenerator constructed without an App.
NoApp ==
    /\ exclude_ranges = <<>>
    /\ same_list = FALSE
    /\ has_document = FALSE
    /\ ui_enabled = FALSE
    /\ checked = {}
    /\ range_elements = {}
    /\ created = 0

Init ==
    /\ start_date \in Days
    /\ end_date \in Days
    /\ excluded_days \in SUBSET DayNames
    /\ InitGenerate \/ InitBind
    /\ ret = NotCalled
    /\ prev = NotCalled
    /\ outcome = "none"
    /\ writes = <<>>
    /\ before = selected_table
    /\ NoApp

(***************************************************************************)
(* The operations                                                          *)
(***************************************************************************)
\* self._generate_dates(self.start_date, self.end_date, self.excluded_days)
generate ==
    /\ ret' = _generate_dates(start_date, end_date, excluded_days)
    /\ prev' = ret
    /\ UNCHANGED <<config, selected_table, outcome, writes, before, app>>

\* self.add_dates_to_table()
add_dates_to_table ==
    \E dates \in {_generate_dates(start_date, end_date, excluded_days)} :
        /\ ret' = dates
        /\ prev' = ret
        /\ before' = selected_table
        /\ IF dates.status = "ok"
           THEN \E bound \in {bind_rows(1, dates.dates, selected_table, <<>>)} :
                    /\ outcome' = bound.outcome
                    /\ selected_table' = bound.table
                    /\ writes' = bound.writes
           ELSE /\ outcome' = dates.status
                /\ selected_table' = selected_table
                /\ writes' = <<>>
        /\ UNCHANGED <<config, app>>

Next == generate \/ add_dates_to_table

Spec == Init /\ [][Next]_vars

(***************************************************************************)
(* The App: the list of excluded ranges it shares with its document.       *)
(*                                                                         *)
(* A DateRangeElement frame is a record of its identity (id) and of the    *)
(* dates its two DateEntry widgets show; every copy of a frame in a list   *)
(* is that one object, and frames are equal only to themselves.            *)
(***************************************************************************)
\* date.today(), the date the pickers and a new DateRangeElement show.
today == FirstDay

\* What the end date picker shows: the last day of the window.
picked_end == FirstDay + NumDays - 1

\* The lowered texts of the checkboxes created ticked (Saturday, Sunday).
ticked_at_start == {lower(text) : text \in {"Saturday", "Sunday"}}

Frame(id, s, e) == [id |-> id, start_date |-> s, end_date |-> e]

\* list.index(x) from 1, or 0 where list.remove(x) raises ValueError.
first_index(list, x) ==
    IF \E k \in 1..Len(list) : list[k].id = x.id
    THEN CHOOSE k \in 1..Len(list) :
            /\ list[k].id = x.id
            /\ \A j \in 1..(k - 1) : list[j].id # x.id
    ELSE 0

\* list.remove(x), for x in the list: the first occurrence goes.
list_remove(list, x) ==
    LET i == first_index(list, x)
    IN  [k \in 1..(Len(list) - 1) |-> IF k < i THEN list[k] ELSE list[k + 1]]

\* App.__init__: no document yet, every widget disabled.  The variables of
\* the document hold what its constructor will be given.
InitApp ==
    /\ exclude_ranges = <<>>
    /\ same_list = FALSE
    /\ has_document = FALSE
    /\ ui_enabled = FALSE
    /\ checked = ticked_at_start
    /\ range_elements = {}
    /\ created = 0
    /\ start_date = today
    /\ end_date = picked_end
    /\ date_format = "%a. %b. %d"
    /\ excluded_days = ticked_at_start
    /\ excluded_date_ranges = <<>>
    /\ date_column = 0
    /\ selected_table = NewTable([r \in 1..MaxRows |-> MaxCols])
    /\ ret = NotCalled
    /\ prev = NotCalled
    /\ outcome = "none"
    /\ writes = <<>>
    /\ before = selected_table

history == <<ret, prev, outcome, writes, before>>

\* App._path_entry_handler: the path names a file or it does not.
_path_entry_handler ==
    \E found \in BOOLEAN :
        IF found
        THEN /\ has_document' = TRUE
             /\ ui_enabled' = TRUE
             /\ start_date' = today
             /\ end_date' = picked_end
             /\ selected_table' = NewTable([r \in 1..MaxRows |-> MaxCols])
             /\ date_column' = 0
             /\ date_format' = "%a. %b. %d"
             /\ excluded_days' = checked
             /\ excluded_date_ranges' = exclude_ranges
             /\ same_list' = TRUE
             /\ UNCHANGED <<exclude_ranges, checked, range_elements, created, history>>
        ELSE /\ ui_enabled' = FALSE
             /\ UNCHANGED <<config, selected_table, history, exclude_ranges, same_list,
                            has_document, checked, range_elements, created>>

\* App._weekday_checkbox_handler, for a click on one of the two checkboxes
\* created ticked.
_weekday_checkbox_handler(checkbox_name) ==
    /\ ui_enabled
    /\ IF checkbox_name \in checked
       THEN /\ checked' = checked \ {checkbox_name}
            /\ excluded_days' = excluded_days \ {checkbox_name}
       ELSE /\ checked' = checked \cup {checkbox_name}
            /\ excluded_days' = excluded_days \cup {checkbox_name}
    /\ UNCHANGED <<start_date, end_date, date_format, excluded_date_ranges, date_column,
                   selected_table, history, exclude_ranges, same_list, has_document,
                   ui_enabled, range_elements, created>>

\* App._exclude_new_range_handler: the new frame is appended to
\* exclude_ranges and to document.excluded_date_ranges, one list or two.
_exclude_new_range_handler ==
    /\ ui_enabled
    /\ created < MaxCreated
    /\ LET date_range == Frame(created + 1, today, today)
           appended   == Append(exclude_ranges, date_range)
       IN  /\ IF same_list
              THEN /\ exclude_ranges' = Append(appended, date_range)
                   /\ excluded_date_ranges' = Append(appended, date_range)
              ELSE /\ exclude_ranges' = appended
                   /\ excluded_date_ranges' = Append(excluded_date_ranges, date_range)
           /\ range_elements' = range_elements \cup {date_range}
           /\ created' = created + 1
    /\ UNCHANGED <<start_date, end_date, date_format, excluded_days, date_column,
                   selected_table, history, same_list, has_document, ui_enabled, checked>>

\* _remove_date_range_element with its second line missing.
_remove_date_range_element_once(date_range_element) ==
    IF first_index(exclude_ranges, date_range_element) = 0
    THEN [raised |-> TRUE, exclude_ranges |-> exclude_ranges,
          excluded_date_ranges |-> excluded_date_ranges]
    ELSE LET removed == list_remove(exclude_ranges, date_range_element)
         IN  [raised |-> FALSE, exclude_ranges |-> removed,
              excluded_date_ranges |-> IF same_list THEN removed
                                       ELSE excluded_date_ranges]

\* App._remove_date_range_element: the two lists it leaves, and whether a
\* list.remove raised ValueError.
_remove_date_range_element(date_range_element) ==
    IF first_index(exclude_ranges, date_range_element) = 0
    THEN [raised |-> TRUE, exclude_ranges |-> exclude_ranges,
          excluded_date_ranges |-> excluded_date_ranges]
    ELSE LET removed == list_remove(exclude_ranges, date_range_element)
             theirs  == IF same_list THEN removed ELSE excluded_date_ranges
         IN  IF first_index(theirs, date_range_element) = 0
             THEN [raised |-> TRUE, exclude_ranges |-> removed,
                   excluded_date_ranges |-> theirs]
             ELSE LET left == list_remove(theirs, date_range_element)
                  IN  [raised |-> FALSE,
                       exclude_ranges |-> IF same_list THEN left ELSE removed,
                       excluded_date_ranges |-> left]

\* DateRangeElement._remove_from_list: the frame is destroyed unless
\* on_remove raised.
_remove_from_list(self) ==
    /\ ui_enabled
    /\ self \in range_elements
    /\ \E done \in {_remove_date_range_element(self)} :
          /\ exclude_ranges' = done.exclude_ranges
          /\ excluded_date_ranges' = done.excluded_date_ranges
          /\ range_elements' = IF done.raised THEN range_elements
                               ELSE range_elements \ {self}
    /\ UNCHANGED <<start_date, end_date, date_format, excluded_days, date_column,
                   selected_table, history, same_list, has_document, ui_enabled,
                   checked, created>>

\* The user sets the two DateEntry widgets of a frame: every list that
\* holds the frame holds it with its new dates.
set_date(self, s, e) ==
    /\ ui_enabled
    /\ self \in range_elements
    /\ LET shown(list) ==
               [k \in 1..Len(list) |->
                   IF list[k].id = self.id THEN Frame(self.id, s, e) ELSE list[k]]
       IN  /\ exclude_ranges' = shown(exclude_ranges)
           /\ excluded_date_ranges' = shown(excluded_date_ranges)
           /\ range_elements' = (range_elements \ {self}) \cup {Frame(self.id, s, e)}
    /\ UNCHANGED <<start_date, end_date, date_format, excluded_days, date_column,
                   selected_table, history, same_list, has_document, ui_enabled,
                   checked, created>>

NextApp ==
    \/ _path_entry_handler
    \/ \E checkbox_name \in ticked_at_start : _weekday_checkbox_handler(checkbox_name)
    \/ _exclude_new_range_handler
    \/ \E self \in range_elements : _remove_from_list(self)
    \/ \E self \in range_elements : \E s \in Days, e \in Days : set_date(self, s, e)

SpecApp == InitApp /\ [][NextApp]_vars

(***************************************************************************)
(* The vocabulary of the properties, stated apart from the operations.     *)
(***************************************************************************)
WeekdayNames == <<"monday", "tuesday", "wednesday", "thursday",
                  "friday", "saturday", "sunday">>

\* Two letters that differ at most in case.
SameLetter(a, b) ==
    \/ a = b
    \/ \E i \in 1..26 : {a, b} = {SubSeq(UpperCase, i, i), SubSeq(LowerCase, i, i)}

EqualIgnoringCase(s, t) ==
    /\ Len(s) = Len(t)
    /\ \A i \in 1..Len(s) : SameLetter(SubSeq(s, i, i), SubSeq(t, i, i))

\* The weekdays (Monday = 0 ... Sunday = 6) a string names, case-insensitively.
NamedWeekdays ==
    [s \in DayNames |-> {n \in 0..6 : EqualIgnoringCase(s, WeekdayNames[n + 1])}]

\* The weekday of a date, counted from 0001-01-01, a Monday.
DayOfWeek(d) == (d - 1) % 7

AllNamesValid == \A s \in excluded_days : NamedWeekdays[s] # {}
WeekdayExcluded(d) == \E s \in excluded_days : DayOfWeek(d) \in NamedWeekdays[s]
InRange(d, r) == r.start_date <= d /\ d <= r.end_date
InSomeRange(d) == \E k \in 1..Len(excluded_date_ranges) : InRange(d, excluded_date_ranges[k])

\* The dates the schedule is to hold.
Eligible == {d \in start_date..end_date : ~WeekdayExcluded(d) /\ ~InSomeRange(d)}

Called == ret.status # "none"
Elements(seq) == {seq[i] : i \in 1..Len(seq)}
StrictlyAscending(seq) == \A i \in 1..(Len(seq) - 1) : seq[i] < seq[i + 1]
Minimum(a, b) == IF a <= b THEN a ELSE b

(***************************************************************************)
(* C1: for a valid excluded-weekday set, the output of _generate_dates     *)
(* holds every date of [start, end] whose weekday is not excluded and that *)
(* lies in no excluded range, each once, in strictly ascending order, and  *)
(* no other date.                                                          *)
(***************************************************************************)
C1_EveryEligibleDateOnceAscending ==
    (Called /\ AllNamesValid) =>
        /\ ret.status = "ok"
        /\ StrictlyAscending(ret.dates)
        /\ Elements(ret.dates) = Eligible

\* A call whose window loses one date to a weekday and another to a range,
\* and keeps a third.
C1_Witness ==
    /\ ret.status = "ok"
    /\ AllNamesValid
    /\ \E d \in start_date..end_date : WeekdayExcluded(d) /\ ~InSomeRange(d)
    /\ \E d \in start_date..end_date : ~WeekdayExcluded(d) /\ InSomeRange(d)
    /\ Len(ret.dates) >= 1

\* cells[index] of a row of n cells, as Python indexes a list: whether the
\* index is in range, and the cell (from 1) it designates.
ValidColumn(n, index) == 0 - n <= index /\ index < n
DesignatedCell(n, index) == IF index >= 0 THEN index + 1 ELSE n + index + 1

\* The number of (row, date) pairs of the last add_dates_to_table.
Paired == Minimum(Len(ret.dates), Len(before))

SameShape ==
    /\ Len(selected_table) = Len(before)
    /\ \A r \in 1..Len(before) : Len(selected_table[r]) = Len(before[r])

\* Row i holds the i-th date, rendered with the template, in the designated cell.
HoldsDate(i) ==
    selected_table[i][DesignatedCell(Len(before[i]), date_column)]
        = strftime(ret.dates[i], date_format)

(***************************************************************************)
(* C2: no date of the output of _generate_dates falls on a weekday that a  *)
(* member of the excluded-weekday set names, in whatever case the name is  *)
(* spelled.                                                                *)
(***************************************************************************)
C2_NoExcludedWeekdayInOutput ==
    \A i \in 1..Len(ret.dates) : \A s \in excluded_days :
        DayOfWeek(ret.dates[i]) \notin NamedWeekdays[s]

\* A call that dropped a date for a name not spelled in lower case and
\* returned another date.
C2_Witness ==
    /\ ret.status = "ok"
    /\ Len(ret.dates) >= 1
    /\ \E s \in excluded_days :
          /\ s \notin Elements(WeekdayNames)
          /\ \E d \in start_date..end_date :
                DayOfWeek(d) \in NamedWeekdays[s] /\ ~InSomeRange(d)

(***************************************************************************)
(* C3: no date of the output lies within an excluded range, both bounds    *)
(* inclusive; ranges whose end precedes their start exclude no date and    *)
(* raise no error.                                                         *)
(***************************************************************************)
C3_NoDateOfAnExcludedRange ==
    Called =>
        /\ \A i \in 1..Len(ret.dates) : ~InSomeRange(ret.dates[i])
        /\ ( /\ AllNamesValid
             /\ \A k \in 1..Len(excluded_date_ranges) :
                    excluded_date_ranges[k].end_date < excluded_date_ranges[k].start_date )
           => /\ ret.status = "ok"
              /\ Elements(ret.dates) = {d \in start_date..end_date : ~WeekdayExcluded(d)}

\* A call with a range of several days inside [start, end], its last day
\* on no excluded weekday, that returned a date.
C3_Witness ==
    /\ ret.status = "ok"
    /\ Len(ret.dates) >= 1
    /\ \E k \in 1..Len(excluded_date_ranges) :
          LET r == excluded_date_ranges[k]
          IN  /\ start_date <= r.start_date
              /\ r.start_date < r.end_date
              /\ r.end_date <= end_date
              /\ ~WeekdayExcluded(r.end_date)

C5_EmptyWhenEndBeforeStart ==
    (Called /\ end_date < start_date) => (ret.status = "ok" /\ ret.dates = <<>>)

\* C5 as amended: with end < start and every excluded-weekday name valid,
\* the call returns the empty sequence and raises nothing.
C5_EmptyWhenEndBeforeStartAndNamesValid ==
    (Called /\ end_date < start_date /\ AllNamesValid) =>
        (ret.status = "ok" /\ ret.dates = <<>>)

\* A call with end < start, an excluded weekday and an excluded range.
C5_Witness ==
    /\ Called
    /\ end_date < start_date
    /\ AllNamesValid
    /\ excluded_days # {}
    /\ Len(excluded_date_ranges) >= 1
    /\ ret = [status |-> "ok", dates |-> <<>>]

(***************************************************************************)
(* C6: an excluded-weekday set with a string that names no weekday makes   *)
(* _generate_dates raise KeyError instead of returning dates, and          *)
(* add_dates_to_table then ends with that error before writing any cell.   *)
(***************************************************************************)
C6_InvalidNameRaises ==
    ~AllNamesValid =>
        /\ Called => (ret.status = "KeyError" /\ ret.dates = <<>>)
        /\ outcome # "none" =>
              (outcome = "KeyError" /\ writes = <<>> /\ selected_table = before)

\* An add_dates_to_table that raised KeyError where, but for the invalid
\* name beside a valid one, the first row would have been written.
C6_Witness ==
    /\ outcome = "KeyError"
    /\ \E s \in excluded_days : NamedWeekdays[s] # {}
    /\ start_date <= end_date
    /\ ~WeekdayExcluded(start_date)
    /\ Len(before) >= 1
    /\ ValidColumn(Len(before[1]), date_column)

(***************************************************************************)
(* C7: when date_column is out of range for a row paired with a date,      *)
(* add_dates_to_table raises IndexError at the first such row: the rows    *)
(* before it hold their dates, that row and the rows after it are as they  *)
(* were, and nothing more is written.                                      *)
(***************************************************************************)
C7_FailsAtFirstRowLackingTheColumn ==
    (outcome # "none" /\ ret.status = "ok") =>
        LET bad == {i \in 1..Paired : ~ValidColumn(Len(before[i]), date_column)}
        IN  bad # {} =>
                LET first == CHOOSE i \in bad : \A j \in bad : i <= j
                IN  /\ outcome = "IndexError"
                    /\ SameShape
                    /\ Len(writes) = first - 1
                    /\ \A i \in 1..(first - 1) : writes[i].row = i /\ HoldsDate(i)
                    /\ \A i \in first..Len(before) : selected_table[i] = before[i]

\* An add_dates_to_table that wrote the first row and failed on the second,
\* under its first call (the first row changed).
C7_Witness ==
    /\ outcome = "IndexError"
    /\ Len(writes) = 1
    /\ selected_table[1] # before[1]
    /\ selected_table[2] = before[2]

C9_EveryDayWhenNothingIsExcluded ==
    ( /\ Called
      /\ start_date <= end_date
      /\ excluded_days = {}
      /\ excluded_date_ranges = <<>> ) =>
        /\ ret.status = "ok"
        /\ Len(ret.dates) = end_date - start_date + 1
        /\ ret.dates[1] = start_date
        /\ ret.dates[Len(ret.dates)] = end_date
        /\ \A i \in 1..(Len(ret.dates) - 1) : ret.dates[i + 1] = ret.dates[i] + 1

\* Such a call over more than two days.
C9_Witness ==
    /\ ret.status = "ok"
    /\ start_date + 1 < end_date
    /\ excluded_days = {}
    /\ excluded_date_ranges = <<>>
    /\ Len(ret.dates) >= 3

C11_RangesAreThoseAddedAndNotRemoved ==
    has_document =>
        /\ Elements(excluded_date_ranges) = range_elements
        /\ Elements(exclude_ranges) = range_elements
        /\ LET ticked  == {n \in 0..6 : WeekdayNames[n + 1] \in checked}
               present == {d \in start_date..end_date :
                              /\ DayOfWeek(d) \notin ticked
                              /\ \A r \in range_elements : ~InRange(d, r)}
               dates   == _generate_dates(start_date, end_date, excluded_days)
           IN  /\ dates.status = "ok"
               /\ StrictlyAscending(dates.dates)
               /\ Elements(dates.dates) = present

\* Two ranges were added and the first removed; the one left, of several
\* days, takes dates from the schedule and leaves one.
C11_Witness ==
    /\ has_document
    /\ created = 2
    /\ \E r \in range_elements :
          /\ range_elements = {r}
          /\ r.id = 2
          /\ start_date <= r.start_date
          /\ r.start_date < r.end_date
          /\ r.end_date <= end_date
          /\ \E d \in r.start_date..r.end_date : DayOfWeek(d) \notin {5, 6}
    /\ checked = {}
    /\ Len(_generate_dates(start_date, end_date, excluded_days).dates) >= 1

====
